---- MODULE Spec2Model ----
(***************************************************************************)
(* Mao na Massa API: the middleware chain of server.js / part_001          *)
(* (timestamp middleware, json-server-auth rewriter and guards, the custom *)
(* contract endpoints of custom-endpoints.js, the json-server router) over *)
(* the db.json record store.                                               *)
(***************************************************************************)
EXTENDS Integers, Sequences, FiniteSets, TLC

VARIABLES
    build,    \* which entry file is running: "server.js" or "part_001"
    clock,    \* the server clock, in ms since the epoch (what new Date() reads)
    db,       \* router.db: collection -> id -> record (or Absent)
    req,      \* the last request, as received
    body,     \* req.body of the last request as the middlewares left it
    res,      \* the response to the last request
    served    \* number of requests handled so far

vars == <<build, clock, db, req, body, res, served>>

(***************************************************************************)
(* Bounds of the model.                                                    *)
(***************************************************************************)
MaxUser == 3        \* seeded users 1..MaxUser (client A = 1, professional B = 2, third party = 3)
MaxId == 2          \* record ids of a collection other than users
MaxClock == 4       \* the clock runs from 2 to MaxClock
MaxTick == 1        \* ms the clock may advance between two reads inside one handler
MaxRequests == 1    \* requests per behaviour of Spec
MaxHistory == 3     \* requests per behaviour of SpecRecord
MaxLifecycle == 3   \* requests per behaviour of SpecLifecycle
MaxAccounts == 3    \* requests per behaviour of SpecAccounts

Users == 1..MaxUser
UserIds == 1..(MaxUser + 1)      \* one free slot for a registration
Ids == 1..MaxId

Collections ==
    {"users", "clients", "professionals", "portfolios",
     "contracts", "services", "notifications", "favorites"}

\* The tables each entry file declares, in the order its GET /health lists
\* them: server.js keeps the Portuguese names, part_001 the English ones.
tables(bld) ==
    IF bld = "server.js"
    THEN <<"users", "cliente", "professional", "portfolio",
           "contratacao", "servico", "notificacao", "favorito">>
    ELSE <<"users", "clients", "professionals", "portfolios",
           "contracts", "services", "notifications", "favorites">>

TablesOf(bld) == {tables(bld)[k] : k \in 1..Len(tables(bld))}

\* The table of the contracts, under the name the entry file gives it.
ContractsTable(bld) == IF bld = "server.js" THEN "contratacao" ELSE "contracts"

IsContracts(coll) == coll \in {"contracts", "contratacao"}

\* The contracts of a store, whichever name their table has.
Contracts(store) == store[CHOOSE c \in DOMAIN store : IsContracts(c)]

IdsOf(coll) == IF coll = "users" THEN UserIds ELSE Ids

(***************************************************************************)
(* JSON values as JavaScript sees them.                                    *)
(***************************************************************************)
Undef == [t |-> "undefined", s |-> "", n |-> 0]
Null == [t |-> "null", s |-> "", n |-> 0]
Str(x) == [t |-> "string", s |-> x, n |-> 0]
Num(k) == [t |-> "number", s |-> "", n |-> k]

\* String(value)
StringOf(j) ==
    CASE j.t = "string" -> j.s
      [] j.t = "number" -> ToString(j.n)
      [] j.t = "null" -> "null"
      [] OTHER -> "undefined"

\* The numerals the model's strings can spell.
Numerals == 0..9

\* Number(value): [nan, n]
ToNumber(j) ==
    CASE j.t = "number" -> [nan |-> FALSE, n |-> j.n]
      [] j.t = "null" -> [nan |-> FALSE, n |-> 0]
      [] j.t = "string" ->
            IF j.s = "" THEN [nan |-> FALSE, n |-> 0]
            ELSE IF \E k \in Numerals : ToString(k) = j.s
                 THEN [nan |-> FALSE, n |-> CHOOSE k \in Numerals : ToString(k) = j.s]
                 ELSE [nan |-> TRUE, n |-> 0]
      [] OTHER -> [nan |-> TRUE, n |-> 0]

\* a < b and a > b of JavaScript for a value against a number: false on NaN
JsLess(j, k) == LET v == ToNumber(j) IN ~v.nan /\ v.n < k
JsGreater(j, k) == LET v == ToNumber(j) IN ~v.nan /\ v.n > k

\* !value for the values of the model
Falsy(j) ==
    \/ j.t \in {"undefined", "null"}
    \/ j.t = "string" /\ j.s = ""
    \/ j.t = "number" /\ j.n = 0

(***************************************************************************)
(* new Date().toISOString() for an instant within the first second of the  *)
(* epoch, and its inverse on such strings.                                 *)
(***************************************************************************)
Pad3(n) ==
    IF n < 10 THEN "00" \o ToString(n)
    ELSE IF n < 100 THEN "0" \o ToString(n)
    ELSE ToString(n)

toISOString(ms) == "1970-01-01T00:00:00." \o Pad3(ms) \o "Z"

Instants == 0..(MaxClock + MaxTick)

IsIso(j) == j.t = "string" /\ \E ms \in Instants : toISOString(ms) = j.s

DateParse(j) == CHOOSE ms \in Instants : toISOString(ms) = j.s

(***************************************************************************)
(* Request bodies and stored records.                                      *)
(***************************************************************************)
Fields ==
    {"userId", "clientId", "professionalId", "status", "nota", "comentario",
     "createdAt", "updatedAt", "email", "password"}

EmptyBody == [f \in Fields |-> Undef]

Absent == [id |-> 0, doc |-> EmptyBody]

Rec(id, doc) == [id |-> id, doc |-> doc]

Exists(store, coll, id) == id \in IdsOf(coll) /\ store[coll][id] # Absent

Docs(store, coll) == {store[coll][i] : i \in {k \in IdsOf(coll) : store[coll][k] # Absent}}

(***************************************************************************)
(* Requests and responses.                                                 *)
(***************************************************************************)
\* The Authorization header: absent, or "Bearer <jwt>" with a jwt that is
\* malformed, expired, signed with another key, or valid for user `sub`.
NoHeader == [kind |-> "none", sub |-> 0]
Bearer(kind, u) == [kind |-> kind, sub |-> u]

Headers ==
    {NoHeader} \cup {Bearer(k, 0) : k \in {"malformed", "expired", "badsig"}}
               \cup {Bearer("valid", u) : u \in Users}

\* req.query: the parameters of the query string, each a string or absent.
QueryFields == {"lat", "lon", "radius", "serviceId", "servico_id"}

NoQuery == [f \in QueryFields |-> Undef]

Request(route, method, coll, id, auth, b) ==
    [route |-> route, method |-> method, coll |-> coll, id |-> id,
     auth |-> auth, body |-> b, query |-> NoQuery]

NoRequest == Request("none", "", "", 0, NoHeader, EmptyBody)

Response(status, error, message, data) ==
    [status |-> status, error |-> error, message |-> message, data |-> data,
     nota |-> Undef, comentario |-> Undef, timestamp |-> "", accessToken |-> 0,
     example |-> "", params |-> NoQuery, note |-> "", api |-> "", tables |-> <<>>]

NoResponse == Response(0, "", "", {})

\* A middleware either answers or calls next() with the body it leaves.
Answer(r) == [next |-> FALSE, res |-> r, body |-> EmptyBody]
CallNext(b) == [next |-> TRUE, res |-> NoResponse, body |-> b]

(***************************************************************************)
(* The timestamp middleware (server.js 60-73, part_001 95-108).  now1,     *)
(* now2 and now3 are the three readings of new Date(), in program order.   *)
(***************************************************************************)
\* timestampMiddleware that keeps a timestamp the client sent
timestampMiddlewareKeepingClient(method, b, now1, now2, now3) ==
    LET keep(f, now) == IF b[f] # Undef THEN b[f] ELSE Str(toISOString(now))
        posted ==
            IF method = "POST"
            THEN [b EXCEPT !["createdAt"] = keep("createdAt", now1),
                           !["updatedAt"] = keep("updatedAt", now2)]
            ELSE b
    IN  IF method = "PUT" \/ method = "PATCH"
        THEN [posted EXCEPT !["updatedAt"] = Str(toISOString(now3))]
        ELSE posted

\* timestampMiddleware that stamps a PUT but not a PATCH
timestampMiddlewarePutOnly(method, b, now1, now2, now3) ==
    LET posted ==
            IF method = "POST"
            THEN [b EXCEPT !["createdAt"] = Str(toISOString(now1)),
                           !["updatedAt"] = Str(toISOString(now2))]
            ELSE b
    IN  IF method = "PUT"
        THEN [posted EXCEPT !["updatedAt"] = Str(toISOString(now3))]
        ELSE posted

\* timestampMiddleware that stamps createdAt on an update as well
timestampMiddlewareStampingCreated(method, b, now1, now2, now3) ==
    LET posted ==
            IF method = "POST"
            THEN [b EXCEPT !["createdAt"] = Str(toISOString(now1)),
                           !["updatedAt"] = Str(toISOString(now2))]
            ELSE b
    IN  IF method = "PUT" \/ method = "PATCH"
        THEN [posted EXCEPT !["createdAt"] = Str(toISOString(now3)),
                            !["updatedAt"] = Str(toISOString(now3))]
        ELSE posted

timestampMiddleware(method, b, now1, now2, now3) ==
    LET posted ==
            IF method = "POST"
            THEN [b EXCEPT !["createdAt"] = Str(toISOString(now1)),
                           !["updatedAt"] = Str(toISOString(now2))]
            ELSE b
    IN  IF method = "PUT" \/ method = "PATCH"
        THEN [posted EXCEPT !["updatedAt"] = Str(toISOString(now3))]
        ELSE posted

(***************************************************************************)
(* auth.rewriter (part_001 49-73): "/<resource>*" is rewritten to          *)
(* "/<guard>/<resource>*".  server.js declares no rule: 0 stands for a     *)
(* path left without a guard prefix.                                       *)
(***************************************************************************)
\* accessRules with clients declared 640
accessRulesClientsPrivate ==
    [c \in Collections |->
        CASE c = "users" -> 600
          [] c = "clients" -> 640
          [] c = "professionals" -> 644
          [] c = "portfolios" -> 644
          [] c = "services" -> 640
          [] c = "contracts" -> 660
          [] c = "notifications" -> 600
          [] c = "favorites" -> 600]

\* accessRules with notifications declared 644
accessRulesNotificationsPublic ==
    [c \in Collections |->
        CASE c = "users" -> 600
          [] c = "clients" -> 644
          [] c = "professionals" -> 644
          [] c = "portfolios" -> 644
          [] c = "services" -> 640
          [] c = "contracts" -> 660
          [] c = "notifications" -> 644
          [] c = "favorites" -> 600]

accessRules ==
    [c \in Collections |->
        CASE c = "users" -> 600
          [] c = "clients" -> 644
          [] c = "professionals" -> 644
          [] c = "portfolios" -> 644
          [] c = "services" -> 640
          [] c = "contracts" -> 660
          [] c = "notifications" -> 600
          [] c = "favorites" -> 600]

DeclaresRules(bld) == bld = "part_001"

GuardOf(bld, route, coll) ==
    IF DeclaresRules(bld) /\ route = "crud" THEN accessRules[coll] ELSE 0

(***************************************************************************)
(* The guards of json-server-auth, mounted by server.use(auth).            *)
(***************************************************************************)
\* jwt.verify succeeds
loggedOnly(h) == h.kind = "valid"

loggedOnlyError(h) ==
    CASE h.kind = "none" -> "Missing authorization header"
      [] h.kind = "malformed" -> "jwt malformed"
      [] h.kind = "expired" -> "jwt expired"
      [] OTHER -> "invalid signature"

\* req.claims.sub
Sub(h) == ToString(h.sub)

\* The owner reference privateOnly reads on a stored entity.
OwnerRef(coll, rec) == IF coll = "users" THEN Num(rec.id) ELSE rec.doc["userId"]

\* privateOnly: 0 = next(), else the status it answers with.  POST and PUT
\* are checked on the body's userId, the other methods on the stored entity.
privateOnly(method, coll, id, h, b, store) ==
    IF ~loggedOnly(h) THEN 401
    ELSE IF method = "POST" \/ method = "PUT"
         THEN IF StringOf(b["userId"]) = Sub(h) THEN 0 ELSE 403
         ELSE IF StringOf(OwnerRef(coll, store[coll][id])) = Sub(h) THEN 0 ELSE 403

\* branch({read, write}) of the guards router
IsRead(method) == method = "GET"

guardStatus(guard, method, coll, id, h, b, store) ==
    CASE guard = 660 -> IF loggedOnly(h) THEN 0 ELSE 401
      [] guard = 644 ->
            IF IsRead(method) THEN 0 ELSE privateOnly(method, coll, id, h, b, store)
      [] guard = 640 ->
            IF IsRead(method) THEN (IF loggedOnly(h) THEN 0 ELSE 401)
            ELSE privateOnly(method, coll, id, h, b, store)
      [] guard = 600 -> privateOnly(method, coll, id, h, b, store)
      [] OTHER -> 0

guardsRouter(guard, method, coll, id, h, b, store) ==
    LET st == guardStatus(guard, method, coll, id, h, b, store)
    IN  IF st = 0 THEN CallNext(b)
        ELSE IF st = 401 THEN Answer(Response(401, loggedOnlyError(h), "", {}))
        ELSE IF method = "POST" \/ method = "PUT"
             THEN Answer(Response(403,
                    "Private resource creation: request body must have a reference to the owner id",
                    "", {}))
             ELSE Answer(Response(403,
                    "Private resource access: entity must have a reference to the owner id",
                    "", {}))

\* The guard dereferences the stored entity: a request privateOnly would
\* check against a missing entity, or against a whole collection, is left
\* out of the inputs.
ChecksEntity(guard, method) ==
    /\ method \in {"GET", "PATCH", "DELETE"}
    /\ \/ guard = 600
       \/ guard \in {644, 640} /\ ~IsRead(method)

(***************************************************************************)
(* The users router of json-server-auth, mounted by server.use(auth)       *)
(* before the guards: POST /users registers, PUT and PATCH /users/:id      *)
(* validate and hash the credentials and pass on.                          *)
(***************************************************************************)
SeedEmail(u) == "u" \o ToString(u) \o "@mail.com"

\* An email of the right form that nobody registers.
UnknownEmail == "ghost@mail.com"

ValidEmails == {SeedEmail(u) : u \in UserIds} \cup {"new@mail.com", UnknownEmail}

\* email.match(EMAIL_REGEX)
EmailMatches(e) == e \in ValidEmails

\* bcrypt.hash(password)
Hash(p) == "$2a$10$" \o p

\* validate({required}): "" when the body passes
validate(required, b) ==
    LET email == b["email"]
        password == b["password"]
    IN  IF required /\ (Falsy(email) \/ Falsy(password))
        THEN "Email and password are required"
        ELSE IF ~Falsy(email) /\ ~EmailMatches(email.s)
        THEN "Email format is invalid"
        ELSE IF ~Falsy(password) /\ Len(password.s) < 4
        THEN "Password is too short"
        ELSE ""

EmailTaken(store, e) == \E rec \in Docs(store, "users") : rec.doc["email"] = e

\* lodash-id createId: the highest id plus one
NextId(store, coll) ==
    IF Docs(store, coll) = {} THEN 1
    ELSE 1 + CHOOSE m \in IdsOf(coll) :
                /\ Exists(store, coll, m)
                /\ \A k \in IdsOf(coll) : Exists(store, coll, k) => k <= m

Insert(store, coll, doc) ==
    [store EXCEPT ![coll][NextId(store, coll)] = Rec(NextId(store, coll), doc)]

HashPassword(b) ==
    IF Falsy(b["password"]) THEN b
    ELSE [b EXCEPT !["password"] = Str(Hash(b["password"].s))]

HandledByUsersRouter(r) ==
    \/ r.route = "login"
    \/ /\ r.route = "crud"
       /\ r.coll = "users"
       /\ \/ r.method = "POST" /\ r.id = 0
          \/ r.method \in {"PUT", "PATCH"} /\ r.id # 0

\* bcrypt.compare(password, hash)
Compare(p, hash) == Hash(p) = hash

\* db.get('users').find({ email }): the first user with this email
FindUser(store, e) ==
    LET found == {rec \in Docs(store, "users") : rec.doc["email"] = e}
    IN  CHOOSE rec \in found : \A other \in found : rec.id <= other.id

\* The response of a failed login.
Failed(b, store, error) ==
    [next |-> FALSE, res |-> Response(400, error, "", {}), body |-> b, db |-> store]

\* The login handler, after validate({required: true}): [next, res, body, db]
login(b, store) ==
    IF ~EmailTaken(store, b["email"])
    THEN Failed(b, store, "Cannot find user")
    ELSE LET user == FindUser(store, b["email"])
         IN  IF user.doc["password"].t # "string"
             THEN [next |-> FALSE, res |-> Response(500, "", "", {}),
                   body |-> b, db |-> store]
             ELSE IF ~Compare(b["password"].s, user.doc["password"].s)
             THEN Failed(b, store, "Incorrect password")
             ELSE [next |-> FALSE,
                   res |-> [Response(200, "", "",
                               {Rec(user.id, [user.doc EXCEPT !["password"] = Undef])})
                            EXCEPT !.accessToken = user.id],
                   body |-> b, db |-> store]

\* [next, res, body, db]
usersRouter(r, b, store) ==
    LET problem == validate(r.method # "PATCH", b)
        hashed == HashPassword(b)
        newId == NextId(store, "users")
    IN  IF problem # ""
        THEN [next |-> FALSE, res |-> Response(400, problem, "", {}),
              body |-> b, db |-> store]
        ELSE IF r.route = "login"
        THEN login(b, store)
        ELSE IF r.method # "POST"
        THEN [next |-> TRUE, res |-> NoResponse, body |-> hashed, db |-> store]
        ELSE IF EmailTaken(store, b["email"])
        THEN [next |-> FALSE, res |-> Response(400, "Email already exists", "", {}),
              body |-> b, db |-> store]
        ELSE [next |-> FALSE,
              res |-> [Response(201, "", "",
                          {Rec(newId, [hashed EXCEPT !["password"] = Undef])})
                       EXCEPT !.accessToken = newId],
              body |-> hashed,
              db |-> Insert(store, "users", hashed)]

(***************************************************************************)
(* The custom endpoints (custom-endpoints.js 25-57, part_001 161-194).     *)
(***************************************************************************)
\* validStatus with its last entry forgotten
validStatusShort == <<"criado", "aceito", "em_andamento", "concluido">>

validStatus == <<"criado", "aceito", "em_andamento", "concluido", "cancelado">>

\* Array.prototype.join
RECURSIVE Join(_, _)
Join(list, sep) ==
    IF list = <<>> THEN ""
    ELSE IF Len(list) = 1 THEN list[1]
    ELSE list[1] \o sep \o Join(Tail(list), sep)

\* Array.prototype.includes on a list of strings
Includes(list, j) == j.t = "string" /\ \E i \in 1..Len(list) : list[i] = j.s

\* statusHandler that does not take a contract back to its initial status
statusHandlerNoReturnToInitial(b, now) ==
    IF ~Includes(validStatus, b["status"]) \/ b["status"] = Str(validStatus[1])
    THEN Response(400, "Status inválido. Deve ser um de: " \o Join(validStatus, ", "),
                  "", {})
    ELSE [Response(200, "", "Status atualizado para: " \o StringOf(b["status"]), {})
          EXCEPT !.timestamp = toISOString(now)]

statusHandler(b, now) ==
    IF ~Includes(validStatus, b["status"])
    THEN Response(400, "Status inválido. Deve ser um de: " \o Join(validStatus, ", "),
                  "", {})
    ELSE [Response(200, "", "Status atualizado para: " \o StringOf(b["status"]), {})
          EXCEPT !.timestamp = toISOString(now)]

\* avaliarHandler that asks for a nota (!nota || nota < 1 || nota > 5)
avaliarHandlerRequiringNota(b, now) ==
    IF Falsy(b["nota"]) \/ JsLess(b["nota"], 1) \/ JsGreater(b["nota"], 5)
    THEN Response(400, "Nota deve estar entre 1 e 5", "", {})
    ELSE [Response(200, "", "Avaliação registrada", {})
          EXCEPT !.nota = b["nota"], !.comentario = b["comentario"],
                 !.timestamp = toISOString(now)]

avaliarHandler(b, now) ==
    IF JsLess(b["nota"], 1) \/ JsGreater(b["nota"], 5)
    THEN Response(400, "Nota deve estar entre 1 e 5", "", {})
    ELSE [Response(200, "", "Avaliação registrada", {})
          EXCEPT !.nota = b["nota"], !.comentario = b["comentario"],
                 !.timestamp = toISOString(now)]

\* The name under which the build reads the optional service filter.
FilterName(bld) == IF bld = "server.js" THEN "serviceId" ELSE "servico_id"

\* searchHandler that asks for lat only
searchHandlerLatOnly(q, filter) ==
    LET radius == IF q["radius"] = Undef THEN Num(8) ELSE q["radius"]
    IN  IF Falsy(q["lat"])
        THEN [Response(400, "Parâmetros obrigatórios: lat, lon", "", {})
              EXCEPT !.example =
                "/api/professionals/search?lat=-19.9167&lon=-43.9345&radius=8"]
        ELSE [Response(200, "", "Busca por proximidade disponível", {})
              EXCEPT !.params =
                        [f \in QueryFields |->
                            CASE f = "radius" -> radius
                              [] f \in {"lat", "lon", filter} -> q[f]
                              [] OTHER -> Undef],
                     !.note = "Cálculo de distância realizado no cliente (Haversine)"]

\* searchHandler that takes its default for an empty radius too (radius || 8)
searchHandlerDefaultOnEmpty(q, filter) ==
    LET radius == IF Falsy(q["radius"]) THEN Num(8) ELSE q["radius"]
    IN  IF Falsy(q["lat"]) \/ Falsy(q["lon"])
        THEN [Response(400, "Parâmetros obrigatórios: lat, lon", "", {})
              EXCEPT !.example =
                "/api/professionals/search?lat=-19.9167&lon=-43.9345&radius=8"]
        ELSE [Response(200, "", "Busca por proximidade disponível", {})
              EXCEPT !.params =
                        [f \in QueryFields |->
                            CASE f = "radius" -> radius
                              [] f \in {"lat", "lon", filter} -> q[f]
                              [] OTHER -> Undef],
                     !.note = "Cálculo de distância realizado no cliente (Haversine)"]

\* The proximity search: const { lat, lon, radius = 8, <filter> } = req.query
searchHandler(q, filter) ==
    LET radius == IF q["radius"] = Undef THEN Num(8) ELSE q["radius"]
    IN  IF Falsy(q["lat"]) \/ Falsy(q["lon"])
        THEN [Response(400, "Parâmetros obrigatórios: lat, lon", "", {})
              EXCEPT !.example =
                "/api/professionals/search?lat=-19.9167&lon=-43.9345&radius=8"]
        ELSE [Response(200, "", "Busca por proximidade disponível", {})
              EXCEPT !.params =
                        [f \in QueryFields |->
                            CASE f = "radius" -> radius
                              [] f \in {"lat", "lon", filter} -> q[f]
                              [] OTHER -> Undef],
                     !.note = "Cálculo de distância realizado no cliente (Haversine)"]

\* GET /health: the api name, the clock and the tables the entry file
\* declares (the uptime of the process is left out of the response).
healthHandler(bld, now) ==
    [Response(200, "", "", {})
     EXCEPT !.api = "Mão na Massa (JSON Server)",
            !.timestamp = toISOString(now),
            !.tables = tables(bld)]

\* The request is for one of the routes of the custom endpoints.
IsCustom(r) == r.route \in {"search", "status", "avaliar"}

\* customEndpoints that look the contract up and answer 404 when it is missing
customEndpointsLookingUp(bld, store, r, b, now) ==
    CASE r.route = "search" ->
            [res |-> searchHandler(r.query, FilterName(bld)), db |-> store]
      [] ~Exists(store, ContractsTable(bld), r.id) ->
            [res |-> Response(404, "", "", {}), db |-> store]
      [] r.route = "status" -> [res |-> statusHandler(b, now), db |-> store]
      [] OTHER -> [res |-> avaliarHandler(b, now), db |-> store]

\* customEndpoints that stamp the contract before they validate the request
customEndpointsStampingFirst(bld, store, r, b, now) ==
    LET stamped ==
            IF Exists(store, ContractsTable(bld), r.id)
            THEN [store EXCEPT ![ContractsTable(bld)][r.id].doc["updatedAt"] = b["updatedAt"]]
            ELSE store
    IN  CASE r.route = "search" ->
                [res |-> searchHandler(r.query, FilterName(bld)), db |-> store]
          [] r.route = "status" -> [res |-> statusHandler(b, now), db |-> stamped]
          [] OTHER -> [res |-> avaliarHandler(b, now), db |-> stamped]

\* customEndpoints that store an accepted status or rating in the contract
customEndpointsPersisting(bld, store, r, b, now) ==
    LET held == Exists(store, ContractsTable(bld), r.id)
    IN  CASE r.route = "search" ->
                [res |-> searchHandler(r.query, FilterName(bld)), db |-> store]
          [] r.route = "status" ->
                [res |-> statusHandler(b, now),
                 db |-> IF held /\ statusHandler(b, now).status = 200
                        THEN [store EXCEPT ![ContractsTable(bld)][r.id].doc["status"] = b["status"]]
                        ELSE store]
          [] OTHER ->
                [res |-> avaliarHandler(b, now),
                 db |-> IF held /\ avaliarHandler(b, now).status = 200
                        THEN [store EXCEPT ![ContractsTable(bld)][r.id].doc["nota"] = b["nota"],
                                           ![ContractsTable(bld)][r.id].doc["comentario"] =
                                                b["comentario"]]
                        ELSE store]

\* The custom endpoints, mounted by server.use("/api", customEndpoints) in
\* server.js and inline in part_001; every handler answers by itself and
\* none reads or writes router.db: [res, db]
customEndpoints(bld, store, r, b, now) ==
    CASE r.route = "search" ->
            [res |-> searchHandler(r.query, FilterName(bld)), db |-> store]
      [] r.route = "status" -> [res |-> statusHandler(b, now), db |-> store]
      [] OTHER -> [res |-> avaliarHandler(b, now), db |-> store]

(***************************************************************************)
(* The json-server router over router.db, mounted by server.use(router).   *)
(***************************************************************************)
\* Merge that keeps the stored status
MergeProtectingStatus(doc, b) ==
    [f \in Fields |-> IF b[f] # Undef /\ f # "status" THEN b[f] ELSE doc[f]]

\* updateById: the fields of the body are assigned over the stored ones
Merge(doc, b) == [f \in Fields |-> IF b[f] # Undef THEN b[f] ELSE doc[f]]

\* [res, db]
router(r, b, store) ==
    LET coll == r.coll
        id == r.id
        found == Exists(store, coll, id)
        notFound == [res |-> Response(404, "", "", {}), db |-> store]
    IN  CASE r.method = "GET" /\ id = 0 ->
                [res |-> Response(200, "", "", Docs(store, coll)), db |-> store]
          [] r.method = "GET" /\ id # 0 ->
                IF found
                THEN [res |-> Response(200, "", "", {store[coll][id]}), db |-> store]
                ELSE notFound
          [] r.method = "POST" ->
                [res |-> Response(201, "", "", {Rec(NextId(store, coll), b)}),
                 db |-> Insert(store, coll, b)]
          [] r.method = "PUT" ->
                IF found
                THEN [res |-> Response(200, "", "", {Rec(id, b)}),
                      db |-> [store EXCEPT ![coll][id] = Rec(id, b)]]
                ELSE notFound
          [] r.method = "PATCH" ->
                IF found
                THEN [res |-> Response(200, "", "", {Rec(id, Merge(store[coll][id].doc, b))}),
                      db |-> [store EXCEPT ![coll][id] = Rec(id, Merge(@.doc, b))]]
                ELSE notFound
          [] OTHER ->
                IF found
                THEN [res |-> Response(200, "", "", {}),
                      db |-> [store EXCEPT ![coll][id] = Absent]]
                ELSE notFound

(***************************************************************************)
(* The middleware chain in the order of the server.use calls               *)
(* (server.js 57-104, part_001 91-197): timestamps, rewriter, auth (users  *)
(* router, guards), custom endpoints, router.  now1 and now2 are the first *)
(* and the second reading of the clock the request causes.                 *)
(***************************************************************************)
Chain(bld, store, r, now1, now2) ==
    LET stamped == timestampMiddleware(r.method, r.body, now1, now2, now1)
        guard == GuardOf(bld, r.route, r.coll)
        users == IF HandledByUsersRouter(r)
                 THEN usersRouter(r, stamped, store)
                 ELSE [next |-> TRUE, res |-> NoResponse, body |-> stamped, db |-> store]
        guarded == guardsRouter(guard, r.method, r.coll, r.id, r.auth, users.body, store)
        custom == customEndpoints(bld, store, r, users.body, now2)
        routed == router(r, users.body, store)
    IN  IF ~users.next
        THEN [res |-> users.res, body |-> users.body, db |-> users.db]
        ELSE IF ~guarded.next
        THEN [res |-> guarded.res, body |-> users.body, db |-> store]
        ELSE IF r.route = "health"
        THEN [res |-> healthHandler(bld, now1), body |-> users.body, db |-> store]
        ELSE IF IsCustom(r)
        THEN [res |-> custom.res, body |-> users.body, db |-> custom.db]
        ELSE [res |-> routed.res, body |-> users.body, db |-> routed.db]

(***************************************************************************)
(* The seeded store (db.json): users 1..MaxUser, and in every other        *)
(* collection record 1, owned by user 1; contract 1 is between client 1    *)
(* and professional 2.  The seeds were created at instant 0.               *)
(***************************************************************************)
SeedStamp == Str(toISOString(0))

Stamped(doc) == [doc EXCEPT !["createdAt"] = SeedStamp, !["updatedAt"] = SeedStamp]

SeedDoc(coll, id) ==
    CASE coll = "users" ->
            Stamped([EmptyBody EXCEPT !["email"] = Str(SeedEmail(id)),
                                      !["password"] = Str(Hash("senha123"))])
      [] IsContracts(coll) ->
            Stamped([EmptyBody EXCEPT !["clientId"] = Num(1),
                                      !["professionalId"] = Num(2),
                                      !["status"] = Str("criado")])
      [] OTHER -> Stamped([EmptyBody EXCEPT !["userId"] = Num(1)])

SeedDb(bld) ==
    [c \in TablesOf(bld) |->
        [i \in IdsOf(c) |->
            IF (c = "users" /\ i \in Users) \/ (c # "users" /\ i = 1)
            THEN Rec(i, SeedDoc(c, i))
            ELSE Absent]]

(***************************************************************************)
(* The requests of the model.                                              *)
(***************************************************************************)
\* A client-supplied timestamp: an instant at which the server stamped nothing.
ForgedStamp == Str(toISOString(1))

\* The bodies of a write: an owner reference or none, client-supplied
\* timestamps or none, for a contract its two parties or none, for a user
\* its credentials (good, or with a password too short) or none.
Bodies(coll) ==
    {[EmptyBody EXCEPT !["userId"] = owner,
                       !["createdAt"] = stamp, !["updatedAt"] = stamp,
                       !["clientId"] = IF parties THEN Num(1) ELSE Undef,
                       !["professionalId"] = IF parties THEN Num(2) ELSE Undef,
                       !["email"] = IF creds = "none" THEN Undef ELSE Str("new@mail.com"),
                       !["password"] = CASE creds = "none" -> Undef
                                         [] creds = "short" -> Str("abc")
                                         [] OTHER -> Str("segredo")] :
        owner \in {Undef} \cup {Num(u) : u \in Users},
        stamp \in {Undef, ForgedStamp},
        parties \in IF IsContracts(coll) THEN BOOLEAN ELSE {FALSE},
        creds \in IF coll = "users" THEN {"none", "good", "short"} ELSE {"none"}}

CrudRequests(bld) ==
    UNION {
        {Request("crud", "GET", c, i, h, EmptyBody) :
            i \in {0} \cup IdsOf(c), h \in Headers}
        \cup {Request("crud", "DELETE", c, i, h, EmptyBody) :
            i \in IdsOf(c), h \in Headers}
        \cup {Request("crud", "POST", c, 0, h, b) :
            h \in Headers, b \in Bodies(c)}
        \cup {Request("crud", m, c, i, h, b) :
            m \in {"PUT", "PATCH"}, i \in IdsOf(c), h \in Headers, b \in Bodies(c)}
        : c \in TablesOf(bld)}

StatusInputs ==
    {Str(validStatus[i]) : i \in 1..Len(validStatus)}
    \cup {Undef, Null, Num(1), Str(""), Str("foo"), Str("CRIADO")}

StatusRequests ==
    {Request("status", "PUT", "contracts", i, h, [EmptyBody EXCEPT !["status"] = st]) :
        i \in Ids, h \in Headers, st \in StatusInputs}

NotaInputs ==
    {Undef, Null, Num(-1), Num(0), Num(1), Num(3), Num(5), Num(6),
     Str("3"), Str("6"), Str("abc")}

HealthRequests ==
    {Request("health", "GET", "", 0, h, EmptyBody) :
        h \in {NoHeader, Bearer("expired", 0), Bearer("valid", 1)}}

\* The query strings of a search: each parameter absent, empty or given.
Queries ==
    {[NoQuery EXCEPT !["lat"] = lat, !["lon"] = lon, !["radius"] = radius,
                     !["serviceId"] = sid, !["servico_id"] = sid2] :
        lat \in {Undef, Str(""), Str("-19.9"), Str("0")},
        lon \in {Undef, Str(""), Str("-43.9")},
        radius \in {Undef, Str(""), Str("8"), Str("15")},
        sid \in {Undef, Str("1"), Str("abc")},
        sid2 \in {Undef, Str("1")}}

SearchRequests ==
    {[Request("search", "GET", "professionals", 0, h, EmptyBody) EXCEPT !.query = q] :
        h \in {NoHeader, Bearer("expired", 0), Bearer("valid", 1)}, q \in Queries}

\* The credentials of a login: a seeded or an unknown email, with the seeded
\* password, another one, one too short, or none.
LoginBodies ==
    {[EmptyBody EXCEPT !["email"] = e, !["password"] = p] :
        e \in {Undef, Str(SeedEmail(1)), Str("new@mail.com")},
        p \in {Undef, Str("senha123"), Str("segredo"), Str("abc")}}

LoginRequests ==
    {Request("login", "POST", "users", 0, NoHeader, b) : b \in LoginBodies}

AvaliarRequests ==
    {Request("avaliar", "PUT", "contracts", i, h,
             [EmptyBody EXCEPT !["nota"] = n, !["comentario"] = c]) :
        i \in Ids, h \in Headers, n \in NotaInputs, c \in {Undef, Str("ok")}}

\* A registration the users router turns down before inserting anything.
TurnedDown(store, r) ==
    /\ r.coll = "users"
    /\ validate(TRUE, r.body) # "" \/ EmailTaken(store, r.body["email"])

\* Inputs left out: a POST that inserts when the collection has no free id
\* left in the model, and a request whose guard would dereference a missing
\* entity or check a whole collection.
Modelled(bld, store, r) ==
    /\ (r.route = "crud" /\ r.method = "POST" /\ ~TurnedDown(store, r))
            => NextId(store, r.coll) \in IdsOf(r.coll)
    /\ ChecksEntity(GuardOf(bld, r.route, r.coll), r.method)
            => r.id # 0 /\ Exists(store, r.coll, r.id)

\* The request reads the clock twice: lines 63 and 64 of a POST, or line 69
\* and the handler's own timestamp.
TwoReads(r) == r.method = "POST" \/ r.route \in {"status", "avaliar"}

(***************************************************************************)
(* The state machine.                                                      *)
(***************************************************************************)
Init ==
    /\ build \in {"server.js", "part_001"}
    /\ clock = 2
    /\ db = SeedDb(build)
    /\ req = NoRequest
    /\ body = EmptyBody
    /\ res = NoResponse
    /\ served = 0

\* One request through the whole chain; the clock advances by d between
\* its first and its second reading.
Serve(r, d) ==
    /\ Modelled(build, db, r)
    /\ d > 0 => TwoReads(r)
    /\ clock + d <= MaxClock
    /\ LET out == Chain(build, db, r, clock, clock + d)
       IN  /\ req' = r
           /\ body' = out.body
           /\ res' = out.res
           /\ db' = out.db
    /\ clock' = clock + d
    /\ served' = served + 1
    /\ UNCHANGED build

Tick ==
    /\ clock < MaxClock
    /\ clock' = clock + 1
    /\ UNCHANGED <<build, db, req, body, res, served>>

CrudRequest ==
    /\ served < MaxRequests
    /\ \E r \in CrudRequests(build), d \in 0..MaxTick : Serve(r, d)

StatusRequest ==
    /\ served < MaxRequests
    /\ \E r \in StatusRequests, d \in 0..MaxTick : Serve(r, d)

AvaliarRequest ==
    /\ served < MaxRequests
    /\ \E r \in AvaliarRequests, d \in 0..MaxTick : Serve(r, d)

HealthRequest ==
    /\ served < MaxRequests
    /\ \E r \in HealthRequests : Serve(r, 0)

SearchRequest ==
    /\ served < MaxRequests
    /\ \E r \in SearchRequests : Serve(r, 0)

LoginRequest ==
    /\ served < MaxRequests
    /\ \E r \in LoginRequests, d \in 0..MaxTick : Serve(r, d)

Next ==
    \/ Tick
    \/ CrudRequest
    \/ StatusRequest
    \/ AvaliarRequest
    \/ SearchRequest
    \/ LoginRequest
    \/ HealthRequest

Spec == Init /\ [][Next]_vars

(***************************************************************************)
(* The history of one collection: client 1 creates, replaces, patches,     *)
(* reads and deletes contracts, with or without timestamps of its own in   *)
(* the payload.                                                            *)
(***************************************************************************)
RecordBodies ==
    {[EmptyBody EXCEPT !["clientId"] = Num(1), !["professionalId"] = Num(2),
                       !["createdAt"] = stamp, !["updatedAt"] = stamp] :
        stamp \in {Undef, ForgedStamp}}

RecordRequests(bld) ==
    LET h == Bearer("valid", 1)
    IN  {Request("crud", m, ContractsTable(bld), i, h, EmptyBody) :
            m \in {"GET", "DELETE"}, i \in Ids}
        \cup {Request("crud", "POST", ContractsTable(bld), 0, h, b) : b \in RecordBodies}
        \cup {Request("crud", m, ContractsTable(bld), i, h, b) :
                m \in {"PUT", "PATCH"}, i \in Ids, b \in RecordBodies}

RecordRequest ==
    /\ served < MaxHistory
    /\ \E r \in RecordRequests(build), d \in 0..MaxTick : Serve(r, d)

NextRecord == Tick \/ RecordRequest

SpecRecord == Init /\ [][NextRecord]_vars

(***************************************************************************)
(* The life of a contract: status-change and rating requests for contract  *)
(* 1 (and for an id the store does not hold), and updates of its status    *)
(* and rating through the generic route, by its client (user 1) and its    *)
(* professional (user 2), with a status of the enumeration or another one, *)
(* and by a caller without a token.                                        *)
(***************************************************************************)
LifecycleStatuses == {Str(validStatus[k]) : k \in 1..Len(validStatus)} \cup {Str("foo")}

LifecycleRequests(bld) ==
    {Request("status", "PUT", "contracts", i, h, [EmptyBody EXCEPT !["status"] = st]) :
        i \in Ids, h \in {NoHeader, Bearer("valid", 2)}, st \in LifecycleStatuses}
    \cup {Request("crud", "PATCH", ContractsTable(bld), 1, Bearer("valid", 2),
                   [EmptyBody EXCEPT !["status"] = st]) : st \in LifecycleStatuses}
    \cup {Request("crud", "PUT", ContractsTable(bld), 1, Bearer("valid", 2),
                   [EmptyBody EXCEPT !["clientId"] = Num(1), !["professionalId"] = Num(2),
                                     !["status"] = st]) :
            st \in {Undef, Num(7)}}
    \cup {Request("crud", "PATCH", ContractsTable(bld), 1, NoHeader,
                   [EmptyBody EXCEPT !["status"] = Str("foo")])}
    \cup {Request("avaliar", "PUT", "contracts", i, Bearer("valid", 1),
                   [EmptyBody EXCEPT !["nota"] = n, !["comentario"] = Str("ok")]) :
            i \in Ids, n \in {Num(0), Num(5)}}
    \cup {Request("crud", "PATCH", ContractsTable(bld), 1, Bearer("valid", 1),
                   [EmptyBody EXCEPT !["nota"] = n, !["comentario"] = Str("ok")]) :
            n \in {Num(3), Num(5)}}

LifecycleRequest ==
    /\ served < MaxLifecycle
    /\ \E r \in LifecycleRequests(build), d \in 0..MaxTick : Serve(r, d)

NextLifecycle == Tick \/ LifecycleRequest

SpecLifecycle == Init /\ [][NextLifecycle]_vars

(***************************************************************************)
(* Accounts: registrations and logins with a fresh email and with the      *)
(* email of user 1, under several passwords, and user 2 changing the email *)
(* of its own record.                                                      *)
(***************************************************************************)
AccountEmails == {Str("new@mail.com"), Str(SeedEmail(1))}

AccountRequests ==
    {Request("crud", "POST", "users", 0, NoHeader,
             [EmptyBody EXCEPT !["email"] = e, !["password"] = p]) :
        e \in AccountEmails, p \in {Str("segredo"), Str("outra12"), Str("abc")}}
    \cup {Request("login", "POST", "users", 0, NoHeader,
                   [EmptyBody EXCEPT !["email"] = e, !["password"] = p]) :
            e \in AccountEmails \cup {Str(UnknownEmail)},
            p \in {Str("senha123"), Str("segredo"), Str("errada1")}}
    \cup {Request("crud", "PATCH", "users", 2, Bearer("valid", 2),
                   [EmptyBody EXCEPT !["email"] = e]) : e \in AccountEmails}

AccountRequest ==
    /\ served < MaxAccounts
    /\ \E r \in AccountRequests, d \in 0..MaxTick : Serve(r, d)

NextAccounts == Tick \/ AccountRequest

SpecAccounts == Init /\ [][NextAccounts]_vars

(***************************************************************************)
(* Properties.                                                             *)
(***************************************************************************)
\* The step just taken served a request.
Served == served' = served + 1

\* A server timestamp: the ISO string of an instant the clock has shown.
IsServerStamp(str) == \E t \in 2..clock : str = toISOString(t)

StatusEnumeration == {"criado", "aceito", "em_andamento", "concluido", "cancelado"}

\* C1: a status-change request whose status is not one of criado, aceito,
\* em_andamento, concluido, cancelado (an absent status included) is answered
\* 400 with an error that lists exactly these five, in this order; one whose
\* status is a member is answered 200 with a message naming the new status
\* and a timestamp read from the server clock.
C1_StatusValidated ==
    req.route = "status" =>
        LET st == req.body["status"]
        IN  IF st.t = "string" /\ st.s \in StatusEnumeration
            THEN /\ res.status = 200
                 /\ res.message = "Status atualizado para: " \o st.s
                 /\ IsServerStamp(res.timestamp)
            ELSE /\ res.status = 400
                 /\ res.error = "Status inválido. Deve ser um de: "
                        \o "criado, aceito, em_andamento, concluido, cancelado"
                 /\ res.timestamp = ""

\* C1 witness: a status change without a status was answered 400.
C1_Witness ==
    /\ req.route = "status"
    /\ req.body["status"] = Undef
    /\ res.status = 400

\* A rating the claim counts as inside the range: a number from 1 to 5.
RatingInRange(j) == j.t = "number" /\ 1 <= j.n /\ j.n <= 5

\* C2 (as claimed): a rating request is answered 400 when its rating is
\* outside 1..5 and 200, echoing rating and comment with a server timestamp,
\* when it is inside.
C2_RatingValidated ==
    req.route = "avaliar" =>
        IF RatingInRange(req.body["nota"])
        THEN /\ res.status = 200
             /\ res.nota = req.body["nota"]
             /\ res.comentario = req.body["comentario"]
             /\ IsServerStamp(res.timestamp)
        ELSE res.status = 400

\* The request reads or updates one record of a collection.
ReadsOrUpdates(r, coll, id) ==
    /\ r.route = "crud"
    /\ r.coll = coll
    /\ r.id = id
    /\ r.method \in {"GET", "PUT", "PATCH"}

\* C3 (as claimed): under the declared contracts rule, contract 1 (client 1,
\* professional 2) is read and updated by the tokens of users 1 and 2, and a
\* read or update with any other user's token is denied.
C3_ContractParties ==
    (/\ DeclaresRules(build)
     /\ ReadsOrUpdates(req, "contracts", 1)
     /\ req.auth.kind = "valid")
        => IF req.auth.sub \in {1, 2}
           THEN res.status = 200
           ELSE res.status \in {401, 403}

\* The collections the rule table of the design declares owner-only write,
\* public read, and without any public capability.
OwnerOnlyWrite ==
    {"users", "clients", "professionals", "portfolios", "services",
     "notifications", "favorites"}

PublicRead == {"clients", "professionals", "portfolios"}

NoPublicCapability == {"users", "services", "contracts", "notifications", "favorites"}

\* The caller holds a valid token and is not the owner of the stored record.
NonOwner(store, r) ==
    /\ r.auth.kind = "valid"
    /\ Exists(store, r.coll, r.id)
    /\ StringOf(OwnerRef(r.coll, store[r.coll][r.id])) # ToString(r.auth.sub)

\* C4 (as claimed): where the declared rule gives write to the owner only, a
\* PUT, PATCH or DELETE of an existing record by an authenticated caller who
\* is not its owner is answered Forbidden and leaves the store as it was.
C4_NonOwnerWriteDenied ==
    [][(/\ Served
        /\ DeclaresRules(build)
        /\ req'.route = "crud"
        /\ req'.coll \in OwnerOnlyWrite
        /\ req'.method \in {"PUT", "PATCH", "DELETE"}
        /\ NonOwner(db, req'))
            => (res'.status = 403 /\ db' = db)]_vars

\* C5: where the declared rule grants public read, a GET without a token is
\* answered from the store (200 with the collection or the record, 404 for
\* an id the collection does not hold), and a POST, PUT, PATCH or DELETE
\* without a token is answered 401; neither changes the store.
C5_PublicReadAnonymous ==
    [][(/\ Served
        /\ DeclaresRules(build)
        /\ req'.route = "crud"
        /\ req'.coll \in PublicRead
        /\ req'.auth.kind = "none")
            => /\ db' = db
               /\ IF req'.method = "GET"
                  THEN IF req'.id = 0
                       THEN res'.status = 200 /\ res'.data = Docs(db, req'.coll)
                       ELSE IF Exists(db, req'.coll, req'.id)
                       THEN res'.status = 200 /\ res'.data = {db[req'.coll][req'.id]}
                       ELSE res'.status = 404
                  ELSE res'.status = 401]_vars

\* C5 witness: an anonymous GET of a public-read collection was answered 200
\* with its records.
C5_Witness ==
    /\ DeclaresRules(build)
    /\ req.route = "crud"
    /\ req.coll = "professionals"
    /\ req.method = "GET"
    /\ req.auth.kind = "none"
    /\ res.status = 200
    /\ res.data # {}

\* The request arrives on a guarded collection with no public capability
\* and without a valid token.
NoTokenOnPrivate ==
    /\ DeclaresRules(build)
    /\ req.route = "crud"
    /\ req.coll \in NoPublicCapability
    /\ req.auth.kind # "valid"

\* C6 (as claimed): every request to a collection with no public capability
\* made without a valid token is answered 401.
C6_NoTokenUnauthenticated == NoTokenOnPrivate => res.status = 401

\* The credentials of a request the users router turns down: email or
\* password missing (required on POST and PUT), or a password of fewer than
\* 4 characters.
BadCredentials(r) ==
    \/ r.method # "PATCH" /\ (Falsy(r.body["email"]) \/ Falsy(r.body["password"]))
    \/ ~Falsy(r.body["password"]) /\ Len(r.body["password"].s) < 4

\* C6 (amended): such a request is answered 401, unless it is one the users
\* router answers before the guards: POST /users, the registration route, is
\* answered 400 for bad credentials or a taken email and 201 otherwise, and a
\* PUT or PATCH /users/:id with bad credentials is answered 400.
C6_NoTokenUnauthenticatedOrAccountRoute ==
    NoTokenOnPrivate =>
        IF req.coll = "users" /\ req.method \in {"POST", "PUT", "PATCH"}
        THEN IF BadCredentials(req) THEN res.status = 400
             ELSE IF req.method = "POST"
             THEN res.status = 201
                    \/ (res.status = 400 /\ res.error = "Email already exists")
             ELSE res.status = 401
        ELSE res.status = 401

\* C6 witness: a request with an expired token to a collection without
\* public capability was answered 401.
C6_Witness ==
    /\ NoTokenOnPrivate
    /\ req.coll = "contracts"
    /\ req.auth.kind = "expired"
    /\ res.status = 401

\* C7: on every POST the payload leaves the timestamp middleware with
\* createdAt set to the clock reading at line 63 and updatedAt to the reading
\* at line 64, whatever the client sent in these fields, and a record the
\* request creates is stored with these two values.
C7_PostStamped ==
    [][(Served /\ req'.method = "POST")
            => /\ body'["createdAt"] = Str(toISOString(clock))
               /\ body'["updatedAt"] = Str(toISOString(clock'))
               /\ res'.status = 201 =>
                    \A rec \in res'.data :
                        /\ db'[req'.coll][rec.id].doc["createdAt"] = body'["createdAt"]
                        /\ db'[req'.coll][rec.id].doc["updatedAt"] = body'["updatedAt"]]_vars

\* C7 witness: a POST that carried timestamps of the client's created a
\* record that does not have them.
C7_Witness ==
    /\ req.method = "POST"
    /\ req.body["createdAt"] = ForgedStamp
    /\ req.body["updatedAt"] = ForgedStamp
    /\ res.status = 201
    /\ \E rec \in res.data :
            /\ db[req.coll][rec.id].doc["createdAt"] # ForgedStamp
            /\ db[req.coll][rec.id].doc["updatedAt"] # ForgedStamp

\* C8 (as claimed): every record a POST produces has createdAt equal to
\* updatedAt, however the clock advances while the request is handled.
C8_CreatedEqualsUpdated ==
    (req.method = "POST" /\ res.status = 201)
        => \A rec \in res.data : rec.doc["createdAt"] = rec.doc["updatedAt"]

\* The step is a PUT or PATCH that the router applied to a stored record.
Updated ==
    /\ Served
    /\ req'.route = "crud"
    /\ req'.method \in {"PUT", "PATCH"}
    /\ res'.status = 200

\* C9 (as claimed): an update leaves the stored record's createdAt as it
\* was, whether or not the payload carries a createdAt.
C9_CreatedAtKept ==
    [][Updated =>
            db'[req'.coll][req'.id].doc["createdAt"]
                = db[req'.coll][req'.id].doc["createdAt"]]_vars

\* C10 (as claimed): every successful update of a record leaves its
\* updatedAt strictly later than it was.
C10_UpdatedAtStrictlyLater ==
    [][Updated =>
            DateParse(db'[req'.coll][req'.id].doc["updatedAt"])
                > DateParse(db[req'.coll][req'.id].doc["updatedAt"])]_vars

\* C10 (amended): after a successful PUT or PATCH the stored updatedAt is the
\* server instant read while handling it, which is never earlier than the
\* record's previous updatedAt, and strictly later whenever the clock has
\* advanced past the previous updatedAt.
C10_UpdatedAtIsWriteInstant ==
    [][Updated =>
            LET old == db[req'.coll][req'.id].doc["updatedAt"]
                new == db'[req'.coll][req'.id].doc["updatedAt"]
            IN  /\ new = Str(toISOString(clock))
                /\ DateParse(new) >= DateParse(old)
                /\ clock > DateParse(old) => DateParse(new) > DateParse(old)]_vars

\* C10 witness: a record created by a POST was updated later and has a
\* later updatedAt than createdAt.
C10_Witness ==
    /\ req.route = "crud"
    /\ req.method = "PUT"
    /\ req.id = 2
    /\ res.status = 200
    /\ \E rec \in res.data :
            /\ IsIso(rec.doc["updatedAt"])
            /\ DateParse(rec.doc["updatedAt"]) > 2

\* C11: on every PUT and PATCH, whichever route it takes, the payload leaves
\* the timestamp middleware with updatedAt set to the clock reading at line
\* 69, whatever the client sent there, and with every other field, createdAt
\* included, exactly as the client sent it (absent fields stay absent).  The
\* one later change to the payload is the users router hashing the password
\* of a PUT or PATCH /users/:id.
C11_UpdateStampsOnlyUpdatedAt ==
    [][(Served /\ req'.method \in {"PUT", "PATCH"})
            => /\ body'["updatedAt"] = Str(toISOString(clock))
               /\ \A f \in Fields \ {"updatedAt"} :
                    \/ body'[f] = req'.body[f]
                    \/ /\ f = "password"
                       /\ HandledByUsersRouter(req')
                       /\ req'.body[f].t = "string"
                       /\ body'[f] = Str(Hash(req'.body[f].s))]_vars

\* C11 witness: a PATCH that carried a createdAt and an updatedAt of the
\* client's went on with the server's updatedAt and the client's createdAt.
C11_Witness ==
    /\ req.route = "crud"
    /\ req.method = "PATCH"
    /\ req.body["createdAt"] = ForgedStamp
    /\ req.body["updatedAt"] = ForgedStamp
    /\ body["createdAt"] = ForgedStamp
    /\ body["updatedAt"] # ForgedStamp
    /\ IsIso(body["updatedAt"])
    /\ res.status = 200

\* The texts around the parameter names in the messages of the search.
Pieces ==
    {"", ", ", "Parâmetros obrigatórios: ", "/api/professionals/search?",
     "=-19.9167&", "=-43.9345&radius=8"}

\* The text names a and then b.
Mentions(text, a, b) ==
    \E pre \in Pieces, mid \in Pieces, post \in Pieces :
        text = pre \o a \o mid \o b \o post

\* The answer to a search that lacks a parameter: 400, an error naming lat
\* and lon, an example with lat and lon, and no parameters echoed.
MissingParameter(r) ==
    /\ r.status = 400
    /\ Mentions(r.error, "lat", "lon")
    /\ Mentions(r.example, "lat", "lon")
    /\ r.params = NoQuery

\* The answer to a search that has its parameters: 200 echoing lat and lon,
\* with no record of the store in it.
Echoed(r, q) ==
    /\ r.status = 200
    /\ r.params["lat"] = q["lat"]
    /\ r.params["lon"] = q["lon"]
    /\ r.data = {}
    /\ r.error = ""

\* C12 (as claimed): a search is answered MissingParameter when lat or lon
\* is absent from the query string and 200 with the parameters echoed when
\* both are present; the store is not touched.
C12_SearchValidated ==
    [][(Served /\ req'.route = "search")
            => /\ db' = db
               /\ IF req'.query["lat"] = Undef \/ req'.query["lon"] = Undef
                  THEN MissingParameter(res')
                  ELSE Echoed(res', req'.query)]_vars

\* The parameter is in the query string with a value that is not empty.
Given(j) == j.t = "string" /\ j.s # ""

\* C12 (amended): a search is answered MissingParameter when lat or lon is
\* absent or empty, and 200 with the parameters echoed when both are given
\* with a value that is not empty; the store is not touched.
C12_SearchValidatedNonEmpty ==
    [][(Served /\ req'.route = "search")
            => /\ db' = db
               /\ IF Given(req'.query["lat"]) /\ Given(req'.query["lon"])
                  THEN Echoed(res', req'.query)
                  ELSE MissingParameter(res')]_vars

\* C12 witness: a search with lat and without lon was answered 400.
C12_Witness ==
    /\ req.route = "search"
    /\ req.query["lat"] = Str("-19.9")
    /\ req.query["lon"] = Undef
    /\ res.status = 400
    /\ res.example # ""

\* C13: in every successful search params.radius is the number 8 when the
\* query string has no radius and the value of the query string otherwise
\* (an empty one included), and the service filter, under the name the
\* running entry file reads it by (serviceId in custom-endpoints.js,
\* servico_id in part_001), is echoed as it came, whatever its value.
C13_RadiusDefaultAndFilterEcho ==
    (req.route = "search" /\ res.status = 200)
        => /\ res.params["radius"] =
                    IF req.query["radius"] = Undef THEN Num(8) ELSE req.query["radius"]
           /\ res.params[FilterName(build)] = req.query[FilterName(build)]

\* C13 witness: a search without radius and with a filter that is not a
\* number was answered with radius 8 and the filter as it came.
C13_Witness ==
    /\ req.route = "search"
    /\ req.query["radius"] = Undef
    /\ req.query[FilterName(build)] = Str("abc")
    /\ res.status = 200
    /\ res.params["radius"] = Num(8)
    /\ res.params[FilterName(build)] = Str("abc")

\* The steps of the status state machine of the design.
Transitions ==
    {<<"criado", "aceito">>, <<"aceito", "em_andamento">>,
     <<"em_andamento", "concluido">>,
     <<"criado", "cancelado">>, <<"aceito", "cancelado">>,
     <<"em_andamento", "cancelado">>}

Terminal == {"concluido", "cancelado"}

StatusOf(store, id) == Contracts(store)[id].doc["status"]

\* from -> to is a step of the state machine (or no change at all).
Allowed(from, to) ==
    \/ from = to
    \/ from.t = "string" /\ to.t = "string" /\ <<from.s, to.s>> \in Transitions

\* C14 (as claimed): the status of a contract moves only along criado ->
\* aceito -> em_andamento -> concluido, or to cancelado from one of the first
\* three: no request changes the stored status of a contract by any other
\* step, and no status-change request is accepted whose status is not one
\* step away from the contract's current status.
C14_StatusStateMachine ==
    [][Served =>
        /\ \A i \in Ids :
                (Exists(db, ContractsTable(build), i) /\ Exists(db', ContractsTable(build), i))
                    => Allowed(StatusOf(db, i), StatusOf(db', i))
        /\ (/\ req'.route = "status"
            /\ res'.status = 200
            /\ Exists(db, ContractsTable(build), req'.id))
                => Allowed(StatusOf(db, req'.id), req'.body["status"])]_vars

\* The record carries a rating.
Rated(doc) == doc["nota"] # Undef \/ doc["comentario"] # Undef

\* C15 (as claimed): a request changes the stored rating fields of a
\* contract only if the contract had none and its status is concluido or
\* cancelado.
C15_RatedOnceWhenTerminal ==
    [][Served =>
        \A i \in Ids :
            (/\ Exists(db, ContractsTable(build), i)
             /\ Exists(db', ContractsTable(build), i)
             /\ \/ Contracts(db')[i].doc["nota"] # Contracts(db)[i].doc["nota"]
                \/ Contracts(db')[i].doc["comentario"]
                        # Contracts(db)[i].doc["comentario"])
                => /\ ~Rated(Contracts(db)[i].doc)
                   /\ StatusOf(db, i).t = "string"
                   /\ StatusOf(db, i).s \in Terminal]_vars

\* C20: every status-change request whose status is one of the five of the
\* enumeration is answered 200 with the message naming that status, whatever
\* the stored status of the contract is (a terminal one included), whether or
\* not the store holds the contract, and whatever requests came before.
C20_NoAdjacency ==
    [][(/\ Served
        /\ req'.route = "status"
        /\ req'.body["status"].t = "string"
        /\ req'.body["status"].s \in StatusEnumeration)
            => /\ res'.status = 200
               /\ res'.message = "Status atualizado para: " \o req'.body["status"].s]_vars

\* C20 witness: after earlier requests had brought contract 1 to concluido,
\* a status change back to criado was answered 200.
C20_Witness ==
    /\ served > 1
    /\ StatusOf(db, 1) = Str("concluido")
    /\ req.route = "status"
    /\ req.id = 1
    /\ req.body["status"] = Str("criado")
    /\ res.status = 200

\* The field of a record that names its owner: the client of a contract,
\* the userId of any other record.
OwnerField(coll) == IF coll = "contracts" THEN "clientId" ELSE "userId"

\* C16 (as claimed): under the declared rules a POST to a collection (the
\* registration of a user aside) creates a record only for a caller with a
\* valid token, and the owner field of the record it stores is the caller's
\* id, whatever the payload said.
C16_CreatorOwnsCreated ==
    (/\ DeclaresRules(build)
     /\ req.route = "crud"
     /\ req.method = "POST"
     /\ req.coll # "users"
     /\ res.status = 201)
        => /\ req.auth.kind = "valid"
           /\ \A rec \in res.data :
                db[req.coll][rec.id].doc[OwnerField(req.coll)] = Num(req.auth.sub)

\* C17 (as claimed): a status-change or rating request reaches its handler
\* only after the token and the contracts rule have been evaluated for the
\* caller: under the declared rules, one without a valid token is answered
\* 401 and never 200 or 400 by the handler.
C17_LifecycleBehindAuth ==
    (/\ DeclaresRules(build)
     /\ req.route \in {"status", "avaliar"}
     /\ req.auth.kind # "valid")
        => res.status = 401

\* The identities (emails) of the stored users.
Identities(store) == {rec.doc["email"] : rec \in Docs(store, "users")}

OnePerIdentity(store) ==
    \A a \in Docs(store, "users"), b \in Docs(store, "users") :
        a.doc["email"] = b.doc["email"] => a.id = b.id

IsRegister(r) == r.route = "crud" /\ r.coll = "users" /\ r.method = "POST"

\* C18 (as claimed): a registration with an identity the users already hold
\* is answered DuplicateIdentity (400 "Email already exists") whatever its
\* secret and leaves the users as they were, and after every request the
\* users hold at most one user per identity.
C18_DuplicateIdentity ==
    [][Served =>
        /\ (IsRegister(req') /\ req'.body["email"] \in Identities(db))
                => /\ res'.status = 400
                   /\ res'.error = "Email already exists"
                   /\ db'["users"] = db["users"]
        /\ OnePerIdentity(db')]_vars

\* C19 (as claimed): a login that fails for a known identity is answered
\* exactly as the same login is answered for an identity nobody holds.
C19_FailedLoginUniform ==
    [][(/\ Served
        /\ req'.route = "login"
        /\ req'.body["email"] \in Identities(db)
        /\ res'.status # 200)
            => res' = Chain(build, db,
                            [req' EXCEPT !.body["email"] = Str(UnknownEmail)],
                            clock, clock').res]_vars

\* C21: a status-change or rating request, accepted or refused, leaves every
\* collection of the store exactly as it was (the contract's status, nota,
\* comentario and updatedAt included); when it is accepted the response
\* carries only the echoed value (the status in the message, or nota and
\* comentario) and a timestamp read from the server clock, and no record.
C21_EchoOnly ==
    [][(Served /\ req'.route \in {"status", "avaliar"})
            => /\ db' = db
               /\ res'.data = {}
               /\ res'.status = 200 =>
                    /\ res'.timestamp = toISOString(clock')
                    /\ IF req'.route = "status"
                       THEN res'.message =
                                "Status atualizado para: " \o req'.body["status"].s
                       ELSE /\ res'.nota = req'.body["nota"]
                            /\ res'.comentario = req'.body["comentario"]]_vars

\* C21 witness: after a whole run of status-change and rating requests, the
\* last one an accepted rating of contract 1, the store is the seeded one.
C21_Witness ==
    /\ served = MaxLifecycle
    /\ req.route = "avaliar"
    /\ req.id = 1
    /\ res.status = 200
    /\ res.nota = Num(5)
    /\ db = SeedDb(build)

\* C22: the answer to a status-change or rating request is 200 or 400,
\* never 404, and it is the answer the same request gets under any other id
\* in the path, held by the store or not, and over the seeded store.
C22_IdIgnored ==
    [][(Served /\ req'.route \in {"status", "avaliar"})
            => /\ res'.status \in {200, 400}
               /\ \A i \in Ids, store \in {db, SeedDb(build)} :
                    Chain(build, store, [req' EXCEPT !.id = i], clock, clock').res = res']_vars

\* C22 witness: a rating of a contract the store does not hold was accepted.
C22_Witness ==
    /\ req.route = "avaliar"
    /\ req.id = 2
    /\ ~Exists(db, ContractsTable(build), 2)
    /\ res.status = 200
    /\ res.message = "Avaliação registrada"

\* value < 1 || value > 5 as JavaScript evaluates it: on a number as it
\* stands, on null as 0, on a string by the number it spells (the empty
\* string 0), and false for whatever converts to NaN, the absent value
\* included.
ComparisonHolds(j) ==
    CASE j.t = "number" -> j.n < 1 \/ j.n > 5
      [] j.t = "null" -> TRUE
      [] j.t = "string" -> j.s \in {"", "0", "6", "7", "8", "9"}
      [] OTHER -> FALSE

\* C23: a rating request is answered 400 "Nota deve estar entre 1 e 5"
\* exactly when value < 1 || value > 5 holds of the submitted nota, and 200
\* "Avaliação registrada" otherwise; a request without nota is answered 200.
C23_RejectsOnComparison ==
    req.route = "avaliar" =>
        /\ IF ComparisonHolds(req.body["nota"])
           THEN res.status = 400 /\ res.error = "Nota deve estar entre 1 e 5"
           ELSE res.status = 200 /\ res.message = "Avaliação registrada"
        /\ req.body["nota"] = Undef => res.status = 200

\* C23 witness: a rating request without nota was answered 200.
C23_Witness ==
    /\ req.route = "avaliar"
    /\ req.body["nota"] = Undef
    /\ res.status = 200
    /\ res.message = "Avaliação registrada"
    /\ res.nota = Undef

\* C24: a PUT or PATCH of a stored contract by a caller the contracts rule
\* admits (any caller where no rule is declared, a caller with a valid token
\* otherwise) is answered 200 and leaves in the contract's status what the
\* payload carried, whether or not it is one of the five of the enumeration:
\* the payload's status for a PUT (none when it has none), and for a PATCH
\* the payload's status when it has one and the stored status when not.
C24_GenericStatusUnvalidated ==
    [][(/\ Served
        /\ req'.route = "crud"
        /\ req'.coll = ContractsTable(build)
        /\ req'.method \in {"PUT", "PATCH"}
        /\ Exists(db, ContractsTable(build), req'.id)
        /\ ~DeclaresRules(build) \/ req'.auth.kind = "valid")
            => /\ res'.status = 200
               /\ StatusOf(db', req'.id) =
                    IF req'.method = "PATCH" /\ req'.body["status"] = Undef
                    THEN StatusOf(db, req'.id)
                    ELSE req'.body["status"]]_vars

\* C24 witness: a PATCH with a status outside the enumeration was stored.
C24_Witness ==
    /\ req.route = "crud"
    /\ req.method = "PATCH"
    /\ req.body["status"] = Str("foo")
    /\ res.status = 200
    /\ StatusOf(db, 1) = Str("foo")

\* C25: a request answered 400, 401 or 403 leaves every collection of the
\* store as it was, although its payload was stamped before it was refused.
C25_RejectedLeavesStore ==
    [][(Served /\ res'.status \in {400, 401, 403}) => db' = db]_vars

\* C25 witness: a PATCH by a caller who is not the owner was stamped by the
\* timestamp middleware and answered 403, and the record has its old
\* updatedAt.
C25_Witness ==
    /\ req.route = "crud"
    /\ req.method = "PATCH"
    /\ res.status = 403
    /\ IsIso(body["updatedAt"])
    /\ body["updatedAt"] # SeedStamp
    /\ db[req.coll][req.id].doc["updatedAt"] = SeedStamp

====
